---- MODULE Spec2Model ----
(***************************************************************************)
(* Copyright-safe private recipe sharing of backend/server.py:             *)
(* create_private_share_link (POST /recipes/share), get_share_preview      *)
(* (GET /recipes/shared/{token}) and import_private_recipes                *)
(* (POST /recipes/import-shared/{token}), with the domain quota ledger and *)
(* the compliance verdict they rely on, and the n-gram functions            *)
(* get_ngrams, calculate_ngram_overlap and check_8gram_compliance.         *)
(*                                                                         *)
(* Every request is a process.  A handler is cut into steps at its awaits  *)
(* on the database or on the rewrite service, so that concurrent requests  *)
(* interleave exactly where the event loop (or another worker) lets them.  *)
(* Time is counted in minutes.  Ratios are counted in thousandths.         *)
(***************************************************************************)
EXTENDS Integers, Sequences, FiniteSets

\* ---------------------------------------------------------------- bounds
MaxTicks == 2
MaxShareTicks == 1
MaxShares == 2
MaxTokens == 1
MaxRedeems == 2
MaxWords == 2
MaxN == 2
MaxFill == 100

\* ------------------------------------------------------ program constants
TTL_MINUTES == 15
MAX_DAILY_PER_DOMAIN == 10
MAX_90DAY_PER_DOMAIN == 100
DAY_MINUTES == 1440

\* ------------------------------------------------------------ the inputs
Procs == {"p1", "p2"}
NoUser == "anonymous"
Users == {"u1", "u2", "u3"}
NoDoc == [none |-> TRUE]

\* db.recipes as it stands before any share: id -> document (the fields the
\* pipeline reads).  A source_url is written as the labels of its host name,
\* <<>> for an empty or absent url.
recipes ==
  [r \in {"r1", "r2", "r3", "r4"} |->
     CASE r = "r1" -> [id |-> "r1", user_id |-> "u1", source_url |-> <<"www", "d1", "example">>]
       [] r = "r2" -> [id |-> "r2", user_id |-> "u1", source_url |-> <<"d1", "example">>]
       [] r = "r3" -> [id |-> "r3", user_id |-> "u1", source_url |-> <<>>]
       [] r = "r4" -> [id |-> "r4", user_id |-> "u2", source_url |-> <<>>]]
RecipeIds == DOMAIN recipes

\* The share requests, all by the signed-in user u1: two recipes of the same
\* source domain; and a recipe of another user followed by one's own recipe
\* that has no source url.
Sharer == "u1"
Batches == {<<"r2", "r1">>}
NoDomainBatches == {<<"r4", "r3">>}
TokenInputs == 1..MaxTokens

\* The texts given to the n-gram functions: every text of up to MaxWords
\* pieces, and for the 8-gram gate a source of eight different words with a
\* candidate that repeats them and goes on with up to MaxFill other words,
\* or that has the same eight words in another order.
Pieces ==
  { [w |-> 1, form |-> "plain"], [w |-> 1, form |-> "Capital"],
    [w |-> 2, form |-> "comma"], [w |-> 0, form |-> "mark"] }
ShortTexts == UNION { [1..k -> Pieces] : k \in 0..MaxWords }
Run(a, b) == [i \in 1..(b - a + 1) |-> [w |-> a + i - 1, form |-> "plain"]]
\* The words of a text in another order: back to front, and the first word
\* moved to the end.
Reverse(s) == [i \in 1..Len(s) |-> s[Len(s) + 1 - i]]
Rotate(s) == [i \in 1..Len(s) |-> s[(i % Len(s)) + 1]]
GramInputs ==
  { [source |-> s, rewritten |-> r, n |-> n] :
      s \in ShortTexts, r \in ShortTexts, n \in 1..MaxN }
  \cup { [source |-> Run(1, 8), rewritten |-> Run(1, 8 + fill), n |-> 8] :
           fill \in 0..MaxFill }
  \cup { [source |-> Run(1, 8), rewritten |-> r, n |-> 8] :
           r \in {Reverse(Run(1, 8)), Rotate(Run(1, 8))} }

\* ------------------------------------------------------- pure functions
\* extract_domain: "" for no url, else the host with every "www." removed.
RECURSIVE StripWww(_)
StripWww(labels) ==
  IF Len(labels) <= 1 THEN labels
  ELSE IF Head(labels) = "www" THEN StripWww(Tail(labels))
  ELSE <<Head(labels)>> \o StripWww(Tail(labels))
extract_domain(url) == IF url = <<>> THEN <<>> ELSE StripWww(url)
Domains == {extract_domain(recipes[r].source_url) : r \in RecipeIds} \ {<<>>}

Min(a, b) == IF a <= b THEN a ELSE b
Max(a, b) == IF a >= b THEN a ELSE b

\* What the rewrite service can answer.  A rewritten text is known to the
\* pipeline by its measurements against the original instructions, in
\* thousandths: o8 = calculate_ngram_overlap(.., n=8), overall =
\* check_overall_ngram_overlap, words = the share of its words that occur in
\* the original; steps = TRUE when it has another number of steps.
Rewrites ==
  { [text |-> "tA", o8 |-> 0,   overall |-> 50,  words |-> 300, steps |-> TRUE],
    [text |-> "tC", o8 |-> 500, overall |-> 400, words |-> 950, steps |-> FALSE] }
Texts == {rw.text : rw \in Rewrites}
RewriteFailures == {[error |-> 503], [error |-> 500]}

\* The measurements validate_compliance is given, on both sides of each of
\* its thresholds.  check_overall_ngram_overlap adds a quarter of the 8-gram
\* overlap to the weighted overlaps of the shorter n-grams, so it is never
\* below that quarter.
ComplianceInputs ==
  { rw \in [o8 : {0, 9, 10, 500},
            overall : {50, 100, 101, 149, 150, 151, 400},
            words : {0, 666, 667, 1000},
            steps : BOOLEAN] : 4 * rw.overall >= rw.o8 }

\* A text is the sequence of its whitespace-separated pieces.  A piece is a
\* word w written plain, capitalised or with a comma attached, or a
\* punctuation mark standing alone.  Words: lower(), strip(), the removal of
\* every character that is neither \w nor \s, then split(): the words in
\* lower case, without the comma, the lone marks gone.
Words(text) ==
  LET kept == SelectSeq(text, LAMBDA piece : piece.form # "mark")
  IN [i \in 1..Len(kept) |-> kept[i].w]

\* get_ngrams as it would be on the pieces as written, without normalising.
get_ngrams_raw(text, n) ==
  LET words == [i \in 1..Len(text) |-> <<text[i].w, text[i].form>>]
  IN IF Len(words) < n THEN {}
     ELSE {SubSeq(words, i, i + n - 1) : i \in 1..(Len(words) - n + 1)}

\* get_ngrams: the set of the runs of n consecutive words.
get_ngrams(text, n) ==
  LET words == Words(text)
  IN IF Len(words) < n THEN {}
     ELSE {SubSeq(words, i, i + n - 1) : i \in 1..(Len(words) - n + 1)}

\* calculate_ngram_overlap, in thousandths rounded down: the share of the
\* rewritten text's n-grams that occur in the source.
calculate_ngram_overlap(source_text, rewritten_text, n) ==
  LET source_ngrams == get_ngrams(source_text, n)
      rewritten_ngrams == get_ngrams(rewritten_text, n)
  IN IF source_ngrams = {} \/ rewritten_ngrams = {} THEN 0
     ELSE (Cardinality(source_ngrams \cap rewritten_ngrams) * 1000)
            \div Cardinality(rewritten_ngrams)

\* check_8gram_compliance: passed iff the 8-gram overlap is below 0.01.
check_8gram_compliance(o8) == [passed |-> o8 < 10, overlap |-> o8]

\* validate_compliance as it would be if the semantic measure counted
\* whenever it was computed.
validate_compliance_band(rw, check_semantic) ==
  LET g == check_8gram_compliance(rw.o8)
      computed == check_semantic \/ (rw.overall > 100 /\ rw.overall < 150)
      semantic_avg ==
        IF computed THEN Min((rw.words * 12) \div 10, 1000) ELSE 0
      passed == /\ g.passed
                /\ rw.overall <= 150
                /\ (semantic_avg < 800 \/ ~computed)
  IN [ngram_max_overlap |-> Max(g.overlap, rw.overall),
      semantic_avg |-> semantic_avg,
      structure_variance |-> rw.steps,
      passed_compliance |-> passed]

\* validate_compliance on the measurements of a rewritten text.
validate_compliance(rw, check_semantic) ==
  LET g == check_8gram_compliance(rw.o8)
      semantic_avg ==
        IF check_semantic \/ (rw.overall > 100 /\ rw.overall < 150)
        THEN Min((rw.words * 12) \div 10, 1000)
        ELSE 0
      passed == /\ g.passed
                /\ rw.overall <= 150
                /\ (semantic_avg < 800 \/ ~check_semantic)
  IN [ngram_max_overlap |-> Max(g.overlap, rw.overall),
      semantic_avg |-> semantic_avg,
      structure_variance |-> rw.steps,
      passed_compliance |-> passed]

\* find_one({"domain": domain}) on db.domain_quotas.
FindQuota(quotas, domain) ==
  IF domain \in DOMAIN quotas THEN quotas[domain] ELSE NoDoc

\* check_domain_quota: no domain is always allowed.  Otherwise the document
\* find_one returned is read (a fresh one when there is none).  raised:
\* daily_reset is read from a document that has no such field and None.tzinfo
\* raises AttributeError; otherwise allowed is the returned bool.
check_domain_quota(quotas, domain, t) ==
  IF domain = <<>> THEN [raised |-> FALSE, allowed |-> TRUE]
  ELSE
  LET doc == FindQuota(quotas, domain)
      quota == IF doc = NoDoc
               THEN [import_count_90d |-> 0, last_import |-> t,
                     daily_imports |-> 0, daily_reset |-> t]
               ELSE doc
  IN IF "daily_reset" \notin DOMAIN quota
     THEN [raised |-> TRUE, allowed |-> FALSE]
     ELSE LET daily == IF (t - quota.daily_reset) \div DAY_MINUTES >= 1
                       THEN 0 ELSE quota.daily_imports
          IN [raised |-> FALSE,
              allowed |-> ~(daily >= MAX_DAILY_PER_DOMAIN)
                          /\ ~(quota.import_count_90d >= MAX_90DAY_PER_DOMAIN)]

\* $set / insert of fields into a document.
Merge(doc, upd) ==
  [f \in DOMAIN doc \cup DOMAIN upd |-> IF f \in DOMAIN upd THEN upd[f] ELSE doc[f]]

\* UpsertQuota as it would be if the counts were written with $set, one more
\* than a new document's, in place of $inc.
UpsertQuota_set(quotas, domain, t) ==
  LET old == FindQuota(quotas, domain)
  IN [d \in DOMAIN quotas \cup {domain} |->
        IF d # domain THEN quotas[d]
        ELSE IF old = NoDoc
        THEN [import_count_90d |-> 1, daily_imports |-> 1, last_import |-> t]
        ELSE [old EXCEPT !.import_count_90d = 1,
                         !.daily_imports = 1,
                         !.last_import = t]]

\* update_one({"domain": domain}, {$inc, $set}, upsert=True): an inserted
\* document has the query's domain and the updated fields, nothing else.
UpsertQuota(quotas, domain, t) ==
  LET old == FindQuota(quotas, domain)
  IN [d \in DOMAIN quotas \cup {domain} |->
        IF d # domain THEN quotas[d]
        ELSE IF old = NoDoc
        THEN [import_count_90d |-> 1, daily_imports |-> 1, last_import |-> t]
        ELSE [old EXCEPT !.import_count_90d = @ + 1,
                         !.daily_imports = @ + 1,
                         !.last_import = t]]

\* increment_domain_quota as it would be without the return on no domain.
increment_domain_quota_any(quotas, domain, t) ==
  UpsertQuota(quotas, domain, t)

\* increment_domain_quota: nothing for no domain, else the upsert.
increment_domain_quota(quotas, domain, t) ==
  IF domain = <<>> THEN quotas ELSE UpsertQuota(quotas, domain, t)

\* find_one({"id": sid}) on db.safe_recipes (kept by original recipe id).
FindSafeById(safe, sid) ==
  LET hits == {r \in RecipeIds : safe[r] # NoDoc /\ safe[r].id = sid}
  IN IF hits = {} THEN NoDoc ELSE safe[CHOOSE r \in hits : TRUE]

\* get_share_preview as it would be if it listed the titles of the recipes.
get_share_preview_titles(tokens, safe, tok, t) ==
  IF tok \notin DOMAIN tokens THEN [status |-> 404, detail |-> "not found"]
  ELSE LET token_doc == tokens[tok]
       IN IF token_doc.used THEN [status |-> 410, detail |-> "already used"]
          ELSE IF t > token_doc.expires_at THEN [status |-> 410, detail |-> "expired"]
          ELSE [status |-> 200, recipe_count |-> token_doc.recipe_count,
                expires_at |-> token_doc.expires_at,
                message |-> "Sign in to import these recipes",
                legal_notice |-> "No third-party images or text",
                recipes |-> [i \in 1..Len(token_doc.recipe_ids) |->
                   LET d == FindSafeById(safe, token_doc.recipe_ids[i])
                   IN IF d = NoDoc THEN "" ELSE d.title_generic]]

\* The body of get_share_preview: the response to GET /recipes/shared/{token}
\* against the given collections at time t.
get_share_preview(tokens, safe, tok, t) ==
  IF tok \notin DOMAIN tokens THEN [status |-> 404, detail |-> "not found"]
  ELSE LET token_doc == tokens[tok]
       IN IF token_doc.used THEN [status |-> 410, detail |-> "already used"]
          ELSE IF t > token_doc.expires_at THEN [status |-> 410, detail |-> "expired"]
          ELSE [status |-> 200, recipe_count |-> token_doc.recipe_count,
                expires_at |-> token_doc.expires_at,
                message |-> "Sign in to import these recipes",
                legal_notice |-> "No third-party images or text"]

\* import_checks as it would be without the check of the used flag.
import_checks_no_used(tokens, tok, user_id, t) ==
  IF tok \notin DOMAIN tokens THEN [status |-> 404, detail |-> "not found"]
  ELSE LET token_doc == tokens[tok]
       IN IF token_doc.scope # "private-import-only"
          THEN [status |-> 400, detail |-> "invalid scope"]
          ELSE IF t > token_doc.expires_at THEN [status |-> 410, detail |-> "expired"]
          ELSE IF token_doc.sender_id = user_id
               THEN [status |-> 400, detail |-> "own recipes"]
          ELSE NoDoc

\* import_checks as it would be with the self-import check moved to the front.
import_checks_self_first(tokens, tok, user_id, t) ==
  IF tok \notin DOMAIN tokens THEN [status |-> 404, detail |-> "not found"]
  ELSE LET token_doc == tokens[tok]
       IN IF token_doc.sender_id = user_id
          THEN [status |-> 400, detail |-> "own recipes"]
          ELSE IF token_doc.used THEN [status |-> 410, detail |-> "already used"]
          ELSE IF token_doc.scope # "private-import-only"
               THEN [status |-> 400, detail |-> "invalid scope"]
          ELSE IF t > token_doc.expires_at THEN [status |-> 410, detail |-> "expired"]
          ELSE NoDoc

\* The checks of import_private_recipes on the token it read, in the order of
\* the code: the error response, or NoDoc when the import goes ahead.
import_checks(tokens, tok, user_id, t) ==
  IF tok \notin DOMAIN tokens THEN [status |-> 404, detail |-> "not found"]
  ELSE LET token_doc == tokens[tok]
       IN IF token_doc.used THEN [status |-> 410, detail |-> "already used"]
          ELSE IF token_doc.scope # "private-import-only"
               THEN [status |-> 400, detail |-> "invalid scope"]
          ELSE IF t > token_doc.expires_at THEN [status |-> 410, detail |-> "expired"]
          ELSE IF token_doc.sender_id = user_id
               THEN [status |-> 400, detail |-> "own recipes"]
          ELSE NoDoc

VARIABLES now, import_tokens, safe_recipes, uuid_next, domain_quotas, library,
          proc, nshares, nredeems, gram
vars == <<now, import_tokens, safe_recipes, uuid_next, domain_quotas, library,
          proc, nshares, nredeems, gram>>
stores == <<import_tokens, safe_recipes, uuid_next, domain_quotas, library>>

\* ------------------------------------------------------------ the state
\* A request that is not running.
Idle ==
  [pc |-> "idle", op |-> "none", user_id |-> NoUser, token |-> 0,
   recipe_ids |-> <<>>, idx |-> 0, safe_recipes |-> <<>>,
   compliance_issues |-> <<>>, domain |-> <<>>, attempts |-> 0,
   rewrite_result |-> NoDoc, compliance |-> NoDoc, safe_recipe |-> NoDoc,
   created_at |-> 0, imported |-> <<>>, result |-> NoDoc]

Init ==
  /\ now = 0
  /\ import_tokens = <<>>
  /\ safe_recipes = [r \in RecipeIds |-> NoDoc]
  /\ uuid_next = 1
  /\ domain_quotas = [d \in Domains |-> NoDoc]
  /\ library = [u \in Users |-> <<>>]
  /\ proc = [p \in Procs |-> Idle]
  /\ nshares = 0
  /\ nredeems = 0
  /\ gram = NoDoc

\* The worker takes a new request once it has answered the last one.
Free(p) == proc[p].pc \in {"idle", "done"}

Done(p, response) ==
  [proc EXCEPT ![p] = [@ EXCEPT !.pc = "done", !.result = response]]

\* `continue`: on to the next recipe id of the batch.
NextRecipe(l) == [l EXCEPT !.pc = "cs_loop", !.idx = @ + 1]

\* ------------------------------------------- create_private_share_link
\* The request arrives: get_user_id_or_none, then the loop starts.
StartShare(p, u, batch) ==
  /\ Free(p)
  /\ nshares' = nshares + 1
  /\ proc' = [proc EXCEPT ![p] =
       IF u = NoUser
       THEN [Idle EXCEPT !.pc = "done", !.op = "share",
                         !.result = [status |-> 401]]
       ELSE [Idle EXCEPT !.pc = "cs_loop", !.op = "share", !.user_id = u,
                         !.recipe_ids = batch, !.idx = 1]]
  /\ UNCHANGED <<gram, now, stores, nredeems>>

\* ShareLookup as it would be if a stored safe version were never reused.
ShareLookup_always_rewrite(p) ==
  LET l == proc[p]
      recipe_id == l.recipe_ids[l.idx]
      recipe == IF recipe_id \in RecipeIds /\ recipes[recipe_id].user_id = l.user_id
                THEN recipes[recipe_id] ELSE NoDoc
      domain == extract_domain(recipe.source_url)
      fresh == [l EXCEPT !.attempts = 0, !.domain = <<>>]
  IN /\ l.pc = "cs_loop"
     /\ l.idx <= Len(l.recipe_ids)
     /\ proc' = [proc EXCEPT ![p] =
          IF recipe = NoDoc THEN NextRecipe(fresh)
          ELSE [fresh EXCEPT !.domain = domain,
                             !.pc = IF domain # <<>> THEN "cs_quota" ELSE "cs_rewrite"]]
     /\ UNCHANGED <<gram, now, stores, nshares, nredeems>>

\* Loop head for one recipe id: find the recipe of this user, then its safe
\* version; reuse a compliant one, else go on to the quota check.
ShareLookup(p) ==
  LET l == proc[p]
      recipe_id == l.recipe_ids[l.idx]
      recipe == IF recipe_id \in RecipeIds /\ recipes[recipe_id].user_id = l.user_id
                THEN recipes[recipe_id] ELSE NoDoc
      existing_safe == IF recipe = NoDoc THEN NoDoc ELSE safe_recipes[recipe_id]
      domain == extract_domain(recipe.source_url)
      fresh == [l EXCEPT !.attempts = 0, !.domain = <<>>]
  IN /\ l.pc = "cs_loop"
     /\ l.idx <= Len(l.recipe_ids)
     /\ proc' = [proc EXCEPT ![p] =
          IF recipe = NoDoc THEN NextRecipe(fresh)
          ELSE IF existing_safe # NoDoc /\ existing_safe.compliance.passed_compliance
          THEN NextRecipe([fresh EXCEPT !.safe_recipes = Append(@, existing_safe.id)])
          ELSE [fresh EXCEPT !.domain = domain,
                             !.pc = IF domain # <<>> THEN "cs_quota" ELSE "cs_rewrite"]]
     /\ UNCHANGED <<gram, now, stores, nshares, nredeems>>

\* await check_domain_quota(domain), called outside the try block: an
\* exception in it ends the whole request with 500.
ShareQuota(p) ==
  LET l == proc[p]
      q == check_domain_quota(domain_quotas, l.domain, now)
  IN /\ l.pc = "cs_quota"
     /\ proc' = [proc EXCEPT ![p] =
          IF q.raised THEN [l EXCEPT !.pc = "done", !.result = [status |-> 500]]
          ELSE IF ~q.allowed
          THEN NextRecipe([l EXCEPT !.compliance_issues =
                             Append(@, <<"Quota exceeded", l.domain>>)])
          ELSE [l EXCEPT !.pc = "cs_rewrite"]]
     /\ UNCHANGED <<gram, now, stores, nshares, nredeems>>

\* The first rewrite_instructions_with_ai and validate_compliance with
\* check_semantic=False.  An exception is caught by the try of the loop body.
ShareRewrite(p, answer) ==
  LET l == proc[p]
      called == [l EXCEPT !.attempts = @ + 1]
      compliance == validate_compliance(answer, FALSE)
  IN /\ l.pc = "cs_rewrite"
     /\ proc' = [proc EXCEPT ![p] =
          IF answer \in RewriteFailures
          THEN NextRecipe([called EXCEPT !.compliance_issues =
                             Append(@, <<"Error processing", l.recipe_ids[l.idx]>>)])
          ELSE [called EXCEPT !.rewrite_result = answer, !.compliance = compliance,
                              !.pc = IF compliance.passed_compliance
                                     THEN "cs_store" ELSE "cs_retry"]]
     /\ UNCHANGED <<gram, now, stores, nshares, nredeems>>

\* ShareRetry as it would be if a failed regeneration were tried again.
ShareRetry_again(p, answer) ==
  LET l == proc[p]
      called == [l EXCEPT !.attempts = @ + 1]
      compliance == validate_compliance(answer, TRUE)
  IN /\ l.pc = "cs_retry"
     /\ proc' = [proc EXCEPT ![p] =
          IF answer \in RewriteFailures
          THEN NextRecipe([called EXCEPT !.rewrite_result = NoDoc, !.compliance = NoDoc,
                             !.compliance_issues =
                               Append(@, <<"Error processing", l.recipe_ids[l.idx]>>)])
          ELSE IF ~compliance.passed_compliance
          THEN [called EXCEPT !.rewrite_result = answer, !.compliance = compliance]
          ELSE [called EXCEPT !.rewrite_result = answer, !.compliance = compliance,
                              !.pc = "cs_store"]]
     /\ UNCHANGED <<gram, now, stores, nshares, nredeems>>

\* ShareRetry as it would be if the regenerated version were stored whatever
\* its verdict.
ShareRetry_store_anyway(p, answer) ==
  LET l == proc[p]
      called == [l EXCEPT !.attempts = @ + 1]
      compliance == validate_compliance(answer, TRUE)
  IN /\ l.pc = "cs_retry"
     /\ proc' = [proc EXCEPT ![p] =
          IF answer \in RewriteFailures
          THEN NextRecipe([called EXCEPT !.rewrite_result = NoDoc, !.compliance = NoDoc,
                             !.compliance_issues =
                               Append(@, <<"Error processing", l.recipe_ids[l.idx]>>)])
          ELSE [called EXCEPT !.rewrite_result = answer, !.compliance = compliance,
                              !.pc = "cs_store"]]
     /\ UNCHANGED <<gram, now, stores, nshares, nredeems>>

\* The regeneration after a failed first check, validated with
\* check_semantic=True.
ShareRetry(p, answer) ==
  LET l == proc[p]
      called == [l EXCEPT !.attempts = @ + 1]
      compliance == validate_compliance(answer, TRUE)
  IN /\ l.pc = "cs_retry"
     /\ proc' = [proc EXCEPT ![p] =
          IF answer \in RewriteFailures
          THEN NextRecipe([called EXCEPT !.rewrite_result = NoDoc, !.compliance = NoDoc,
                             !.compliance_issues =
                               Append(@, <<"Error processing", l.recipe_ids[l.idx]>>)])
          ELSE IF ~compliance.passed_compliance
          THEN NextRecipe([called EXCEPT !.rewrite_result = NoDoc, !.compliance = NoDoc,
                             !.compliance_issues =
                               Append(@, <<"Could not generate compliant version",
                                           l.recipe_ids[l.idx]>>)])
          ELSE [called EXCEPT !.rewrite_result = answer, !.compliance = compliance,
                              !.pc = "cs_store"]]
     /\ UNCHANGED <<gram, now, stores, nshares, nredeems>>

\* db.safe_recipes.update_one(..., {"$set": safe_recipe}, upsert=True) with a
\* new uuid4 as id.
ShareStore(p) ==
  LET l == proc[p]
      recipe_id == l.recipe_ids[l.idx]
      safe_recipe == [id |-> uuid_next,
                      original_recipe_id |-> recipe_id,
                      user_id |-> l.user_id,
                      title_generic |-> l.rewrite_result.text,
                      method_rewritten |-> l.rewrite_result.text,
                      adapted_from_domain |-> l.domain,
                      compliance |-> l.compliance,
                      user_images |-> <<>>]
      stored == [l EXCEPT !.safe_recipe = safe_recipe,
                          !.rewrite_result = NoDoc, !.compliance = NoDoc]
  IN /\ l.pc = "cs_store"
     /\ safe_recipes' = [safe_recipes EXCEPT ![recipe_id] = safe_recipe]
     /\ uuid_next' = uuid_next + 1
     /\ proc' = [proc EXCEPT ![p] =
          IF l.domain # <<>> THEN [stored EXCEPT !.pc = "cs_incr"]
          ELSE NextRecipe([stored EXCEPT !.safe_recipes = Append(@, safe_recipe.id),
                                         !.safe_recipe = NoDoc])]
     /\ UNCHANGED <<gram, now, import_tokens, domain_quotas, library, nshares, nredeems>>

\* ShareIncrement as it would be if the domain were counted twice for one
\* stored safe recipe.
ShareIncrement_twice(p) ==
  LET l == proc[p]
  IN /\ l.pc = "cs_incr"
     /\ domain_quotas' = increment_domain_quota(
                            increment_domain_quota(domain_quotas, l.domain, now),
                            l.domain, now)
     /\ proc' = [proc EXCEPT ![p] =
          NextRecipe([l EXCEPT !.safe_recipes = Append(@, l.safe_recipe.id),
                               !.safe_recipe = NoDoc])]
     /\ UNCHANGED <<gram, now, import_tokens, safe_recipes, uuid_next, library,
                    nshares, nredeems>>

\* await increment_domain_quota(domain), then safe_recipes.append.
ShareIncrement(p) ==
  LET l == proc[p]
  IN /\ l.pc = "cs_incr"
     /\ domain_quotas' = increment_domain_quota(domain_quotas, l.domain, now)
     /\ proc' = [proc EXCEPT ![p] =
          NextRecipe([l EXCEPT !.safe_recipes = Append(@, l.safe_recipe.id),
                               !.safe_recipe = NoDoc])]
     /\ UNCHANGED <<gram, now, import_tokens, safe_recipes, uuid_next, library,
                    nshares, nredeems>>

\* ShareFinish as it would be without the check for an empty result.
ShareFinish_no_empty_check(p) ==
  LET l == proc[p]
  IN /\ l.pc = "cs_loop"
     /\ l.idx > Len(l.recipe_ids)
     /\ proc' = [proc EXCEPT ![p] = [l EXCEPT !.pc = "cs_token", !.created_at = now]]
     /\ UNCHANGED <<gram, now, stores, nshares, nredeems>>

\* After the loop: 400 when nothing was prepared, else the token document is
\* built; created_at is the first reading of the clock.
ShareFinish(p) ==
  LET l == proc[p]
  IN /\ l.pc = "cs_loop"
     /\ l.idx > Len(l.recipe_ids)
     /\ proc' = [proc EXCEPT ![p] =
          IF l.safe_recipes = <<>>
          THEN [l EXCEPT !.pc = "done",
                         !.result = [status |-> 400,
                                     issues |-> SubSeq(l.compliance_issues, 1,
                                                  Min(3, Len(l.compliance_issues)))]]
          ELSE [l EXCEPT !.pc = "cs_token", !.created_at = now]]
     /\ UNCHANGED <<gram, now, stores, nshares, nredeems>>

\* expires_at is a second reading of the clock plus 15 minutes; insert_one.
ShareInsert(p) ==
  LET l == proc[p]
      token == Len(import_tokens) + 1
      token_doc == [token |-> token,
                    recipe_ids |-> l.safe_recipes,
                    sender_id |-> l.user_id,
                    scope |-> "private-import-only",
                    created_at |-> l.created_at,
                    expires_at |-> now + TTL_MINUTES,
                    used |-> FALSE,
                    recipe_count |-> Len(l.safe_recipes)]
  IN /\ l.pc = "cs_token"
     /\ import_tokens' = Append(import_tokens, token_doc)
     /\ proc' = Done(p, [status |-> 200, token |-> token,
                         expires_in_minutes |-> TTL_MINUTES,
                         recipe_count |-> Len(l.safe_recipes),
                         compliance_issues |-> l.compliance_issues])
     /\ UNCHANGED <<gram, now, safe_recipes, uuid_next, domain_quotas, library,
                    nshares, nredeems>>

\* Preview as it would be if a successful preview consumed the token.
Preview_consuming(p, tok) ==
  LET response == get_share_preview(import_tokens, safe_recipes, tok, now)
  IN /\ Free(p)
     /\ nredeems' = nredeems + 1
     /\ proc' = [proc EXCEPT ![p] =
          [Idle EXCEPT !.pc = "done", !.op = "preview", !.token = tok,
                       !.result = response]]
     /\ import_tokens' = IF response.status = 200
                         THEN [import_tokens EXCEPT ![tok] = Merge(@, [used |-> TRUE])]
                         ELSE import_tokens
     /\ UNCHANGED <<gram, now, safe_recipes, uuid_next, domain_quotas, library, nshares>>

\* ---------------------------------------------------- get_share_preview
Preview(p, tok) ==
  /\ Free(p)
  /\ nredeems' = nredeems + 1
  /\ proc' = [proc EXCEPT ![p] =
       [Idle EXCEPT !.pc = "done", !.op = "preview", !.token = tok,
                    !.result = get_share_preview(import_tokens, safe_recipes, tok, now)]]
  /\ UNCHANGED <<gram, now, stores, nshares>>

\* ----------------------------------------------- import_private_recipes
\* StartImport as it would be if a refused import of a stored token marked
\* the token as used.
StartImport_marking(p, u, tok) ==
  LET refused == import_checks(import_tokens, tok, u, now)
      begun == [Idle EXCEPT !.op = "import", !.user_id = u, !.token = tok]
  IN /\ Free(p)
     /\ nredeems' = nredeems + 1
     /\ proc' = [proc EXCEPT ![p] =
          IF u = NoUser THEN [begun EXCEPT !.pc = "done", !.result = [status |-> 401]]
          ELSE IF refused # NoDoc THEN [begun EXCEPT !.pc = "done", !.result = refused]
          ELSE [begun EXCEPT !.pc = "im_loop", !.idx = 1,
                             !.recipe_ids = import_tokens[tok].recipe_ids]]
     /\ import_tokens' =
          IF u # NoUser /\ refused # NoDoc /\ tok \in DOMAIN import_tokens
          THEN [import_tokens EXCEPT ![tok] =
                  Merge(@, [used |-> TRUE, used_at |-> now, used_by |-> u])]
          ELSE import_tokens
     /\ UNCHANGED <<gram, now, safe_recipes, uuid_next, domain_quotas, library,
                    nshares>>

\* get_user_id_or_none, find_one on the token and the checks on what it read.
StartImport(p, u, tok) ==
  LET refused == import_checks(import_tokens, tok, u, now)
      begun == [Idle EXCEPT !.op = "import", !.user_id = u, !.token = tok]
  IN /\ Free(p)
     /\ nredeems' = nredeems + 1
     /\ proc' = [proc EXCEPT ![p] =
          IF u = NoUser THEN [begun EXCEPT !.pc = "done", !.result = [status |-> 401]]
          ELSE IF refused # NoDoc THEN [begun EXCEPT !.pc = "done", !.result = refused]
          ELSE [begun EXCEPT !.pc = "im_loop", !.idx = 1,
                             !.recipe_ids = import_tokens[tok].recipe_ids]]
     /\ UNCHANGED <<gram, now, stores, nshares>>

\* ImportRecipe as it would be without the second look at compliance.
ImportRecipe_no_revalidate(p) ==
  LET l == proc[p]
      safe_recipe == FindSafeById(safe_recipes, l.recipe_ids[l.idx])
      skip == safe_recipe = NoDoc
      doc == [name |-> safe_recipe.title_generic,
              instructions |-> safe_recipe.method_rewritten,
              image_url |-> "", imported_from_share |-> TRUE]
  IN /\ l.pc = "im_loop"
     /\ l.idx <= Len(l.recipe_ids)
     /\ library' = IF skip THEN library
                   ELSE [library EXCEPT ![l.user_id] = Append(@, doc)]
     /\ proc' = [proc EXCEPT ![p] =
          [l EXCEPT !.idx = @ + 1,
                    !.imported = IF skip THEN @ ELSE Append(@, doc.name)]]
     /\ UNCHANGED <<gram, now, import_tokens, safe_recipes, uuid_next, domain_quotas,
                    nshares, nredeems>>

\* One turn of the import loop: find the safe recipe by id, skip it when it
\* is gone or not compliant, else insert a copy of its safe fields into
\* db.recipes for this user.
ImportRecipe(p) ==
  LET l == proc[p]
      safe_recipe == FindSafeById(safe_recipes, l.recipe_ids[l.idx])
      skip == safe_recipe = NoDoc \/ ~safe_recipe.compliance.passed_compliance
      doc == [name |-> safe_recipe.title_generic,
              instructions |-> safe_recipe.method_rewritten,
              image_url |-> "", imported_from_share |-> TRUE]
  IN /\ l.pc = "im_loop"
     /\ l.idx <= Len(l.recipe_ids)
     /\ library' = IF skip THEN library
                   ELSE [library EXCEPT ![l.user_id] = Append(@, doc)]
     /\ proc' = [proc EXCEPT ![p] =
          [l EXCEPT !.idx = @ + 1,
                    !.imported = IF skip THEN @ ELSE Append(@, doc.name)]]
     /\ UNCHANGED <<gram, now, import_tokens, safe_recipes, uuid_next, domain_quotas,
                    nshares, nredeems>>

\* After the loop: update_one({"token": token}, {"$set": {used, used_at,
\* used_by}}) and the 200 response.
ImportInvalidate(p) ==
  LET l == proc[p]
  IN /\ l.pc = "im_loop"
     /\ l.idx > Len(l.recipe_ids)
     /\ import_tokens' = [import_tokens EXCEPT ![l.token] =
          Merge(@, [used |-> TRUE, used_at |-> now, used_by |-> l.user_id])]
     /\ proc' = Done(p, [status |-> 200, imported |-> l.imported,
                         count |-> Len(l.imported)])
     /\ UNCHANGED <<gram, now, safe_recipes, uuid_next, domain_quotas, library,
                    nshares, nredeems>>

\* ------------------------------------------------------------- the rest
\* Time passes, a token's lifetime at a time.
Tick ==
  /\ now' = now + TTL_MINUTES
  /\ UNCHANGED <<gram, stores, proc, nshares, nredeems>>

\* ---------------------------------------------------- the n-gram checker
\* calculate_ngram_overlap both ways round for the given n, and
\* check_8gram_compliance, on the texts given.
CheckGrams ==
  /\ gram \in GramInputs
  /\ gram' = [source |-> gram.source, rewritten |-> gram.rewritten, n |-> gram.n,
              overlap |-> calculate_ngram_overlap(gram.source, gram.rewritten, gram.n),
              reverse |-> calculate_ngram_overlap(gram.rewritten, gram.source, gram.n),
              gate |-> check_8gram_compliance(
                         calculate_ngram_overlap(gram.source, gram.rewritten, 8))]
  /\ UNCHANGED <<now, stores, proc, nshares, nredeems>>

\* validate_compliance on the measurements given, as the first check calls
\* it (check_semantic=False) and as the check of the regeneration does
\* (check_semantic=True).
CheckCompliance ==
  /\ gram \in ComplianceInputs
  /\ gram' = [rw |-> gram,
              relaxed |-> validate_compliance(gram, FALSE),
              strict |-> validate_compliance(gram, TRUE)]
  /\ UNCHANGED <<now, stores, proc, nshares, nredeems>>

ShareSteps ==
  \/ \E p \in Procs : ShareLookup(p)
  \/ \E p \in Procs : ShareQuota(p)
  \/ \E p \in Procs, answer \in Rewrites \cup RewriteFailures : ShareRewrite(p, answer)
  \/ \E p \in Procs, answer \in Rewrites \cup RewriteFailures : ShareRetry(p, answer)
  \/ \E p \in Procs : ShareStore(p)
  \/ \E p \in Procs : ShareIncrement(p)
  \/ \E p \in Procs : ShareFinish(p)
  \/ \E p \in Procs : ShareInsert(p)

\* All three endpoints on one token: requests to share recipe r1 are made,
\* one at a time, until one of them has issued the token, while anybody
\* previews and imports.  Share requests that run against each other are
\* SpecShare's.
Next ==
  \/ /\ nshares < MaxTokens
     /\ import_tokens = <<>>
     /\ \A q \in Procs : proc[q].op # "share" \/ proc[q].pc = "done"
     /\ \E p \in Procs : StartShare(p, Sharer, <<"r1">>)
  \/ ShareSteps
  \/ nredeems < MaxRedeems /\ \E p \in Procs, tok \in TokenInputs : Preview(p, tok)
  \/ nredeems < MaxRedeems
       /\ \E p \in Procs, u \in Users, tok \in TokenInputs : StartImport(p, u, tok)
  \/ \E p \in Procs : ImportRecipe(p)
  \/ \E p \in Procs : ImportInvalidate(p)
  \/ now < MaxTicks * TTL_MINUTES /\ Tick

Spec == Init /\ [][Next]_vars

\* The share endpoint alone, on recipes that have a source domain.
NextShare ==
  \/ nshares < MaxShares
       /\ \E p \in Procs, batch \in Batches : StartShare(p, Sharer, batch)
  \/ ShareSteps
  \/ now < MaxShareTicks * TTL_MINUTES /\ Tick

SpecShare == Init /\ [][NextShare]_vars

\* The share endpoint alone, on a recipe of another user and a recipe without
\* a source domain: neither comes to the quota check or to the increment.
NextNoDomain ==
  \/ nshares < MaxShares
       /\ \E p \in Procs, batch \in NoDomainBatches : StartShare(p, Sharer, batch)
  \/ \E p \in Procs : ShareLookup(p)
  \/ \E p \in Procs, answer \in Rewrites \cup RewriteFailures : ShareRewrite(p, answer)
  \/ \E p \in Procs, answer \in Rewrites \cup RewriteFailures : ShareRetry(p, answer)
  \/ \E p \in Procs : ShareStore(p)
  \/ \E p \in Procs : ShareFinish(p)
  \/ \E p \in Procs : ShareInsert(p)
  \/ now < MaxShareTicks * TTL_MINUTES /\ Tick

SpecNoDomain == Init /\ [][NextNoDomain]_vars

\* The redeeming endpoints on a database that already holds documents when
\* the server starts: both handlers read the token with .get("scope") and
\* .get("used"), and the import re-reads compliance.passed_compliance, of
\* whatever document is stored.  One stored token of sender u1, unused,
\* expiring at minute 15, of either scope, listing a compliant safe recipe,
\* a compliant and a failing one, or a failing one and an id that is gone;
\* or no token at all.
StoredSafe(recipe_id, sid, text, passed) ==
  [id |-> sid, original_recipe_id |-> recipe_id, user_id |-> Sharer,
   title_generic |-> text, method_rewritten |-> text,
   adapted_from_domain |-> <<>>,
   compliance |-> [ngram_max_overlap |-> 0, semantic_avg |-> 0,
                   structure_variance |-> TRUE, passed_compliance |-> passed],
   user_images |-> <<>>]
StoredSafeRecipes ==
  [r \in RecipeIds |->
     CASE r = "r1" -> StoredSafe("r1", 1, "tA", TRUE)
       [] r = "r2" -> StoredSafe("r2", 2, "tC", FALSE)
       [] OTHER -> NoDoc]
StoredScopes == {"private-import-only", "public"}
StoredRecipeIds == {<<1>>, <<1, 2>>, <<2, 3>>}
StoredTokens ==
  { <<[token |-> 1, recipe_ids |-> ids, sender_id |-> Sharer, scope |-> sc,
       created_at |-> 0, expires_at |-> TTL_MINUTES, used |-> FALSE,
       recipe_count |-> Len(ids)]>> : ids \in StoredRecipeIds, sc \in StoredScopes }
  \cup {<<>>}

InitStored ==
  /\ now = 0
  /\ import_tokens \in StoredTokens
  /\ safe_recipes = StoredSafeRecipes
  /\ uuid_next = 4
  /\ domain_quotas = [d \in Domains |-> NoDoc]
  /\ library = [u \in Users |-> <<>>]
  /\ proc = [p \in Procs |-> Idle]
  /\ nshares = 0
  /\ nredeems = 0
  /\ gram = NoDoc

NextStored ==
  \/ nredeems < MaxRedeems /\ \E p \in Procs, tok \in TokenInputs : Preview(p, tok)
  \/ nredeems < MaxRedeems
       /\ \E p \in Procs, u \in Users, tok \in TokenInputs : StartImport(p, u, tok)
  \/ \E p \in Procs : ImportRecipe(p)
  \/ \E p \in Procs : ImportInvalidate(p)
  \/ now < MaxTicks * TTL_MINUTES /\ Tick

SpecStored == InitStored /\ [][NextStored]_vars

\* The share endpoint on a database whose quota document of the domain was
\* stored with all the fields of DomainQuota: a day after its daily_reset or
\* on the same day, one import below a limit or at the daily limit.  Two
\* requests share one recipe each, both of that domain.
QuotaBatches == {<<"r1">>, <<"r2">>}
StoredCounts ==
  {[daily_imports |-> MAX_DAILY_PER_DOMAIN - 1, import_count_90d |-> MAX_DAILY_PER_DOMAIN - 1],
   [daily_imports |-> MAX_DAILY_PER_DOMAIN, import_count_90d |-> MAX_DAILY_PER_DOMAIN],
   [daily_imports |-> MAX_DAILY_PER_DOMAIN - 1, import_count_90d |-> MAX_90DAY_PER_DOMAIN - 1]}
StoredQuotas ==
  {[import_count_90d |-> c.import_count_90d, last_import |-> reset,
    daily_imports |-> c.daily_imports, daily_reset |-> reset] :
      c \in StoredCounts, reset \in {0, DAY_MINUTES}}

InitQuota ==
  /\ now = DAY_MINUTES
  /\ import_tokens = <<>>
  /\ safe_recipes = [r \in RecipeIds |-> NoDoc]
  /\ uuid_next = 1
  /\ \E quota \in StoredQuotas :
        domain_quotas = [d \in Domains |->
           IF d = extract_domain(recipes["r1"].source_url) THEN quota ELSE NoDoc]
  /\ library = [u \in Users |-> <<>>]
  /\ proc = [p \in Procs |-> Idle]
  /\ nshares = 0
  /\ nredeems = 0
  /\ gram = NoDoc

NextQuota ==
  \/ nshares < MaxShares
       /\ \E p \in Procs, batch \in QuotaBatches : StartShare(p, Sharer, batch)
  \/ ShareSteps

SpecQuota == InitQuota /\ [][NextQuota]_vars

\* The n-gram functions on given texts.
InitGrams ==
  /\ now = 0
  /\ import_tokens = <<>>
  /\ safe_recipes = [r \in RecipeIds |-> NoDoc]
  /\ uuid_next = 1
  /\ domain_quotas = [d \in Domains |-> NoDoc]
  /\ library = [u \in Users |-> <<>>]
  /\ proc = [p \in Procs |-> Idle]
  /\ nshares = 0
  /\ nredeems = 0
  /\ gram \in GramInputs

NextGrams == CheckGrams

SpecGrams == InitGrams /\ [][NextGrams]_vars

\* validate_compliance on given measurements.
InitCompliance ==
  /\ now = 0
  /\ import_tokens = <<>>
  /\ safe_recipes = [r \in RecipeIds |-> NoDoc]
  /\ uuid_next = 1
  /\ domain_quotas = [d \in Domains |-> NoDoc]
  /\ library = [u \in Users |-> <<>>]
  /\ proc = [p \in Procs |-> Idle]
  /\ nshares = 0
  /\ nredeems = 0
  /\ gram \in ComplianceInputs

NextCompliance == CheckCompliance

SpecCompliance == InitCompliance /\ [][NextCompliance]_vars

TypeOK ==
  /\ now \in 0..(DAY_MINUTES + (MaxTicks + MaxShareTicks) * TTL_MINUTES)
  /\ \A p \in Procs : proc[p].pc \in {"idle", "cs_loop", "cs_quota", "cs_rewrite",
        "cs_retry", "cs_store", "cs_incr", "cs_token", "im_loop", "done"}

\* ------------------------------------------------------------ the claims
GoneUsed == [status |-> 410, detail |-> "already used"]
GoneExpired == [status |-> 410, detail |-> "expired"]
SelfImport == [status |-> 400, detail |-> "own recipes"]

\* C1: of two import requests by different users (neither the sender) on the
\* same token, at most one is answered 200 and at most one copies recipes.
C1_SingleRedemption ==
  \A p, q \in Procs :
    ( /\ p # q
      /\ proc[p].op = "import" /\ proc[q].op = "import"
      /\ proc[p].token = proc[q].token
      /\ proc[p].user_id # proc[q].user_id )
    => /\ ~( /\ proc[p].pc = "done" /\ proc[p].result.status = 200
             /\ proc[q].pc = "done" /\ proc[q].result.status = 200 )
       /\ ~( proc[p].imported # <<>> /\ proc[q].imported # <<>> )

\* C2: an import answered 200 leaves its token used, a used token stays used,
\* and every preview or import that reads a used token is answered 410
\* "already used", whoever asks and whatever the time.
C2_UsedTokenGone ==
  [][ /\ \A p \in Procs :
           ( /\ proc[p].pc = "im_loop" /\ proc'[p].pc = "done"
             /\ proc'[p].result.status = 200 )
           => import_tokens'[proc[p].token].used
      /\ \A tok \in DOMAIN import_tokens :
           import_tokens[tok].used => import_tokens'[tok].used
      /\ \A p \in Procs, tok \in DOMAIN import_tokens :
           import_tokens[tok].used
           => /\ Preview(p, tok) => proc'[p].result = GoneUsed
              /\ \A u \in Users :
                   StartImport(p, u, tok)
                   => proc'[p].pc = "done" /\ proc'[p].result = GoneUsed
    ]_vars

C2_Witness ==
  \E p, q \in Procs :
    /\ proc[p].pc = "done" /\ proc[p].op = "import" /\ proc[p].result.status = 200
    /\ proc[q].pc = "done" /\ proc[q].op \in {"import", "preview"}
    /\ proc[q].token = proc[p].token
    /\ proc[q].result = GoneUsed

\* C3: a preview or an import of an unused token at a time now >= expires_at,
\* the instant now = expires_at included, is answered 410 and imports nothing.
C3_ExpiredTokenGone ==
  [][ \A p \in Procs, tok \in DOMAIN import_tokens :
        ( ~import_tokens[tok].used /\ now >= import_tokens[tok].expires_at )
        => /\ Preview(p, tok) => proc'[p].result.status = 410
           /\ \A u \in Users :
                StartImport(p, u, tok)
                => /\ proc'[p].pc = "done"
                   /\ proc'[p].result.status = 410
                   /\ library' = library
    ]_vars

C5_PreviewReadsOnly ==
  [][ \A p \in Procs, tok \in TokenInputs :
        Preview(p, tok)
        => /\ UNCHANGED stores
           /\ \A u \in Users, t2 \in TokenInputs :
                import_checks(import_tokens', t2, u, now')
                  = import_checks(import_tokens, t2, u, now)
    ]_vars

C5_Witness ==
  \E p \in Procs :
    /\ proc[p].pc = "done" /\ proc[p].op = "preview"
    /\ proc[p].result.status = 200
    /\ ~import_tokens[proc[p].token].used

\* C6: the answer of a preview is the same whatever the titles and methods of
\* the stored safe recipes are, and a 200 answer has the recipe count, the
\* expiry and the two fixed notices, nothing else.
C6_PreviewHidesContent ==
  /\ \A tok \in TokenInputs, alt \in [RecipeIds -> Texts] :
       get_share_preview(import_tokens, safe_recipes, tok, now)
         = get_share_preview(
             import_tokens,
             [r \in RecipeIds |->
                IF safe_recipes[r] = NoDoc THEN NoDoc
                ELSE [safe_recipes[r] EXCEPT !.title_generic = alt[r],
                                             !.method_rewritten = alt[r]]],
             tok, now)
  /\ \A p \in Procs :
       ( proc[p].pc = "done" /\ proc[p].op = "preview" /\ proc[p].result.status = 200 )
       => DOMAIN proc[p].result
            = {"status", "recipe_count", "expires_at", "message", "legal_notice"}

C6_Witness ==
  \E p \in Procs :
    /\ proc[p].pc = "done" /\ proc[p].op = "preview"
    /\ proc[p].result.status = 200
    /\ proc[p].result.recipe_count >= 1
    /\ \E r \in RecipeIds :
         /\ safe_recipes[r] # NoDoc
         /\ safe_recipes[r].id = import_tokens[proc[p].token].recipe_ids[1]

\* C7: when the lookup of a batch entry finds a stored safe recipe that passed
\* compliance, the entry is done in that step: its id joins the accepted list,
\* no rewrite is called, no quota is read or written, no store changes; and
\* the token of the request lists exactly the accepted ids.
C7_ReuseCompliant ==
  [][ \A p \in Procs :
        /\ ( /\ ShareLookup(p)
             /\ proc[p].recipe_ids[proc[p].idx] \in RecipeIds
             /\ recipes[proc[p].recipe_ids[proc[p].idx]].user_id = proc[p].user_id
             /\ safe_recipes[proc[p].recipe_ids[proc[p].idx]] # NoDoc
             /\ safe_recipes[proc[p].recipe_ids[proc[p].idx]].compliance.passed_compliance )
           => /\ proc'[p].pc = "cs_loop"
              /\ proc'[p].idx = proc[p].idx + 1
              /\ proc'[p].attempts = 0
              /\ proc'[p].safe_recipes =
                   Append(proc[p].safe_recipes,
                          safe_recipes[proc[p].recipe_ids[proc[p].idx]].id)
              /\ UNCHANGED stores
        /\ ShareInsert(p)
           => import_tokens'[Len(import_tokens')].recipe_ids = proc[p].safe_recipes
    ]_vars

C7_Witness ==
  \E p \in Procs :
    /\ proc[p].op = "share" /\ proc[p].pc = "cs_loop"
    /\ proc[p].idx = 2 /\ proc[p].attempts = 0
    /\ Len(proc[p].safe_recipes) = 1
    /\ safe_recipes[proc[p].recipe_ids[1]] # NoDoc
    /\ safe_recipes[proc[p].recipe_ids[1]].id = proc[p].safe_recipes[1]

\* C8: a share request is never cut short: when it is answered, every id of
\* its batch has been processed, and it is answered 200 with a token whenever
\* a recipe was accepted.
C8_BatchNeverAborts ==
  \A p \in Procs :
    ( proc[p].pc = "done" /\ proc[p].op = "share" )
    => /\ proc[p].idx = Len(proc[p].recipe_ids) + 1
       /\ proc[p].safe_recipes # <<>> => proc[p].result.status = 200

\* C9: a share request that ends with nothing accepted is refused and adds
\* no token, and no stored token has an empty recipe_ids list.
C9_NoEmptyToken ==
  [][ /\ \A p \in Procs :
           ( /\ proc[p].op = "share" /\ proc[p].pc # "done" /\ proc'[p].pc = "done"
             /\ proc[p].safe_recipes = <<>> )
           => import_tokens' = import_tokens /\ proc'[p].result.status # 200
      /\ \A tok \in DOMAIN import_tokens' : import_tokens'[tok].recipe_ids # <<>>
    ]_vars

C9_Witness ==
  \E p \in Procs :
    /\ proc[p].pc = "done" /\ proc[p].op = "share"
    /\ proc[p].result.status = 400
    /\ proc[p].safe_recipes = <<>>
    /\ proc[p].compliance_issues # <<>>

\* C10: the token a share request inserts is unused, of scope
\* "private-import-only", sent by the caller, expires exactly 15 minutes
\* after its created_at, and lists exactly the accepted safe recipe ids.
C10_IssuedToken ==
  [][ \A p \in Procs :
        ShareInsert(p)
        => LET token_doc == import_tokens'[Len(import_tokens')]
           IN /\ token_doc.used = FALSE
              /\ token_doc.scope = "private-import-only"
              /\ token_doc.sender_id = proc[p].user_id
              /\ token_doc.expires_at = token_doc.created_at + TTL_MINUTES
              /\ token_doc.recipe_ids = proc[p].safe_recipes
    ]_vars

\* C11: an import is answered by the first check that fails in the order
\* not found, already used, expired, invalid scope, own recipes (expired:
\* now is past expires_at), and goes ahead when none fails; so an unused
\* token that is expired and of another scope is answered 410.
C11_CheckOrder ==
  [][ \A p \in Procs, u \in Users, tok \in TokenInputs :
        StartImport(p, u, tok)
        => LET first ==
                 IF tok \notin DOMAIN import_tokens
                 THEN [status |-> 404, detail |-> "not found"]
                 ELSE IF import_tokens[tok].used THEN GoneUsed
                 ELSE IF now > import_tokens[tok].expires_at THEN GoneExpired
                 ELSE IF import_tokens[tok].scope # "private-import-only"
                 THEN [status |-> 400, detail |-> "invalid scope"]
                 ELSE IF import_tokens[tok].sender_id = u THEN SelfImport
                 ELSE NoDoc
           IN IF first = NoDoc THEN proc'[p].pc = "im_loop"
              ELSE proc'[p].pc = "done" /\ proc'[p].result = first
    ]_vars

\* C12: in an import that goes ahead, a listed safe recipe that is gone or
\* whose stored compliance did not pass is passed over without an error and
\* without a copy; the import is answered 200 with exactly the titles of the
\* listed recipes that exist and passed, in order, and leaves the token used.
C12_SkipsNonCompliant ==
  [][ \A p \in Procs :
        /\ ImportRecipe(p)
           => LET d == FindSafeById(safe_recipes, proc[p].recipe_ids[proc[p].idx])
              IN IF d = NoDoc \/ ~d.compliance.passed_compliance
                 THEN /\ library' = library
                      /\ proc'[p].imported = proc[p].imported
                      /\ proc'[p].pc = "im_loop"
                      /\ proc'[p].idx = proc[p].idx + 1
                 ELSE proc'[p].imported = Append(proc[p].imported, d.title_generic)
        /\ ImportInvalidate(p)
           => LET ids == proc[p].recipe_ids
                  ok(sid) == LET d == FindSafeById(safe_recipes, sid)
                             IN d # NoDoc /\ d.compliance.passed_compliance
                  kept == SelectSeq(ids, ok)
              IN /\ proc'[p].pc = "done"
                 /\ proc'[p].result.status = 200
                 /\ proc'[p].result.imported =
                      [i \in 1..Len(kept) |->
                         FindSafeById(safe_recipes, kept[i]).title_generic]
                 /\ proc'[p].result.count = Len(kept)
                 /\ import_tokens'[proc[p].token].used
    ]_vars

C12_Witness ==
  \E p \in Procs :
    /\ proc[p].pc = "done" /\ proc[p].op = "import"
    /\ proc[p].result.status = 200
    /\ proc[p].result.count = 1
    /\ Len(import_tokens[proc[p].token].recipe_ids) = 2
    /\ import_tokens[proc[p].token].used
    /\ \E r \in RecipeIds :
         /\ safe_recipes[r] # NoDoc
         /\ ~safe_recipes[r].compliance.passed_compliance
         /\ safe_recipes[r].id = import_tokens[proc[p].token].recipe_ids[2]

\* C13: the quota check of a share request always decides and never ends the
\* request, on a missing record and on a record increment_domain_quota made
\* alike: denied when daily_imports >= 10 or import_count_90d >= 100, and
\* then the recipe is skipped with a "Quota exceeded" issue; allowed
\* otherwise, and then the rewrite follows.
C13_QuotaDecides ==
  [][ \A p \in Procs :
        ShareQuota(p)
        => LET doc == FindQuota(domain_quotas, proc[p].domain)
               daily == IF doc = NoDoc THEN 0 ELSE doc.daily_imports
               rolling == IF doc = NoDoc THEN 0 ELSE doc.import_count_90d
           IN IF daily >= MAX_DAILY_PER_DOMAIN \/ rolling >= MAX_90DAY_PER_DOMAIN
              THEN /\ proc'[p].pc = "cs_loop"
                   /\ proc'[p].idx = proc[p].idx + 1
                   /\ proc'[p].compliance_issues =
                        Append(proc[p].compliance_issues,
                               <<"Quota exceeded", proc[p].domain>>)
              ELSE /\ proc'[p].pc = "cs_rewrite"
                   /\ proc'[p].compliance_issues = proc[p].compliance_issues
    ]_vars

\* C14: no domain, no quota.  check_domain_quota of no domain allows and
\* increment_domain_quota of no domain leaves the records as they are; a
\* recipe without a source url goes from the lookup straight to the rewrite,
\* is never at the quota check or the increment, and no step on it changes a
\* quota record or adds a "Quota exceeded" issue.
C14_NoDomainNoQuota ==
  [][ /\ check_domain_quota(domain_quotas, <<>>, now) = [raised |-> FALSE, allowed |-> TRUE]
      /\ increment_domain_quota(domain_quotas, <<>>, now) = domain_quotas
      /\ \A p \in Procs :
           /\ proc[p].pc \in {"cs_quota", "cs_incr"} => proc[p].domain # <<>>
           /\ ( /\ ShareLookup(p)
                /\ proc[p].recipe_ids[proc[p].idx] \in RecipeIds
                /\ recipes[proc[p].recipe_ids[proc[p].idx]].user_id = proc[p].user_id
                /\ recipes[proc[p].recipe_ids[proc[p].idx]].source_url = <<>>
                /\ safe_recipes[proc[p].recipe_ids[proc[p].idx]] = NoDoc )
              => proc'[p].pc = "cs_rewrite" /\ proc'[p].domain = <<>>
           /\ ( /\ proc[p].pc \in {"cs_rewrite", "cs_retry", "cs_store"}
                /\ proc[p].domain = <<>>
                /\ proc'[p] # proc[p] )
              => /\ domain_quotas' = domain_quotas
                 /\ \A i \in 1..Len(proc'[p].compliance_issues) :
                      proc'[p].compliance_issues[i][1] # "Quota exceeded"
    ]_vars

C14_Witness ==
  \E p \in Procs :
    /\ proc[p].pc = "done" /\ proc[p].op = "share"
    /\ proc[p].result.status = 200
    /\ safe_recipes["r3"] # NoDoc
    /\ safe_recipes["r3"].adapted_from_domain = <<>>
    /\ proc[p].safe_recipes = <<safe_recipes["r3"].id>>
    /\ \A d \in DOMAIN domain_quotas : domain_quotas[d] = NoDoc

\* C15: a text with fewer than n words once normalised has no n-grams, and
\* its overlap with any other text is 0 whichever of the two is the source.
C15_ShortTextNoNgrams ==
  ( "gate" \in DOMAIN gram )
  => /\ Len(Words(gram.source)) < gram.n
        => /\ get_ngrams(gram.source, gram.n) = {}
           /\ gram.overlap = 0 /\ gram.reverse = 0
     /\ Len(Words(gram.rewritten)) < gram.n
        => /\ get_ngrams(gram.rewritten, gram.n) = {}
           /\ gram.overlap = 0 /\ gram.reverse = 0

C15_Witness ==
  /\ "gate" \in DOMAIN gram
  /\ Len(gram.source) >= gram.n
  /\ Len(Words(gram.source)) < gram.n
  /\ get_ngrams(gram.rewritten, gram.n) # {}
  /\ gram.overlap = 0 /\ gram.reverse = 0

\* C16: a candidate that has a run of 8 consecutive words which is also a
\* run of 8 consecutive words of the source does not pass the 8-gram gate,
\* however long the candidate is.
C16_VerbatimRunFails ==
  ( /\ "gate" \in DOMAIN gram
    /\ \E i \in 1..Len(Words(gram.rewritten)), j \in 1..Len(Words(gram.source)) :
         /\ i + 7 <= Len(Words(gram.rewritten))
         /\ j + 7 <= Len(Words(gram.source))
         /\ SubSeq(Words(gram.rewritten), i, i + 7) = SubSeq(Words(gram.source), j, j + 7) )
  => gram.gate.passed = FALSE

\* C17: whenever an import request has copied a recipe of its token into the
\* requester's library, the stored token is already used.
C17_UsedBeforeCopy ==
  \A p \in Procs :
    ( proc[p].op = "import" /\ proc[p].imported # <<>> )
    => import_tokens[proc[p].token].used

\* C18: for one recipe of a batch the rewrite service is called once, and a
\* second time exactly when the first answer was a text that failed the check
\* without the semantic test; the second answer is checked with the semantic
\* test, and, passed or not, there is no third call.
C18_AtMostTwoRewrites ==
  [][ \A p \in Procs :
        /\ proc'[p].attempts <= 2
        /\ \A answer \in Rewrites \cup RewriteFailures :
             /\ ShareRewrite(p, answer)
                => /\ proc[p].attempts = 0 /\ proc'[p].attempts = 1
                   /\ proc'[p].pc = "cs_retry"
                        <=> ( /\ answer \in Rewrites
                              /\ ~validate_compliance(answer, FALSE).passed_compliance )
             /\ ShareRetry(p, answer)
                => /\ proc[p].attempts = 1 /\ proc'[p].attempts = 2
                   /\ proc'[p].pc \in {"cs_store", "cs_loop"}
                   /\ proc'[p].pc = "cs_store"
                        <=> ( /\ answer \in Rewrites
                              /\ validate_compliance(answer, TRUE).passed_compliance )
                   /\ proc'[p].pc = "cs_store"
                        => proc'[p].compliance = validate_compliance(answer, TRUE)
    ]_vars

C18_Witness ==
  \E p \in Procs :
    /\ proc[p].op = "share" /\ proc[p].pc = "cs_store"
    /\ proc[p].attempts = 2
    /\ proc[p].compliance.passed_compliance
    /\ proc[p].compliance.semantic_avg > 0

\* C19: every stored safe recipe passed compliance; only the store step of a
\* recipe whose verdict passed writes the store; and a regeneration that fails
\* its check writes nothing, accepts nothing and adds the issue "Could not
\* generate compliant version" for the recipe.
C19_OnlyCompliantStored ==
  [][ /\ \A r \in RecipeIds :
           safe_recipes'[r] # NoDoc => safe_recipes'[r].compliance.passed_compliance
      /\ safe_recipes' # safe_recipes
           => \E p \in Procs : ShareStore(p) /\ proc[p].compliance.passed_compliance
      /\ \A p \in Procs, answer \in Rewrites :
           ( ShareRetry(p, answer) /\ ~validate_compliance(answer, TRUE).passed_compliance )
           => /\ safe_recipes' = safe_recipes
              /\ proc'[p].safe_recipes = proc[p].safe_recipes
              /\ proc'[p].pc = "cs_loop"
              /\ proc'[p].compliance_issues =
                   Append(proc[p].compliance_issues,
                          <<"Could not generate compliant version",
                            proc[p].recipe_ids[proc[p].idx]>>)
    ]_vars

C19_Witness ==
  \E p \in Procs :
    /\ proc[p].pc = "done" /\ proc[p].op = "share"
    /\ proc[p].compliance_issues = <<<<"Could not generate compliant version", "r2">>>>
    /\ proc[p].idx = 2
    /\ safe_recipes["r2"] = NoDoc

\* C20: a batch entry whose recipe is missing or belongs to another user is
\* skipped, nothing is stored or accepted for it, and an issue for it is
\* added to the issues of the request.
C20_MissingRecipeIssue ==
  [][ \A p \in Procs :
        ( /\ ShareLookup(p)
          /\ \/ proc[p].recipe_ids[proc[p].idx] \notin RecipeIds
             \/ recipes[proc[p].recipe_ids[proc[p].idx]].user_id # proc[p].user_id )
        => /\ proc'[p].pc = "cs_loop"
           /\ proc'[p].idx = proc[p].idx + 1
           /\ safe_recipes' = safe_recipes
           /\ proc'[p].safe_recipes = proc[p].safe_recipes
           /\ Len(proc'[p].compliance_issues) = Len(proc[p].compliance_issues) + 1
    ]_vars

\* The counts of a domain (0 when there is no document).
Count90d(quotas, d) ==
  IF FindQuota(quotas, d) = NoDoc THEN 0 ELSE quotas[d].import_count_90d
CountDaily(quotas, d) ==
  IF FindQuota(quotas, d) = NoDoc THEN 0 ELSE quotas[d].daily_imports
\* The requests that have stored a safe recipe of the domain and have not yet
\* counted it.
PendingIncrements(pr, d) ==
  {p \in Procs : pr[p].pc = "cs_incr" /\ pr[p].domain = d}

\* C21: a domain is counted exactly once for each safe recipe newly stored
\* with that domain, and only after the store: the quota documents change in
\* no step but the increment of a request that has just stored a safe recipe
\* of that domain, every such store is followed by that increment, and so
\* each count plus the increments still to come equals the number of safe
\* recipes stored so far (uuid_next - 1, every recipe of the batches being of
\* the one domain).  A missing, denied, failed or reused recipe leaves every
\* count as it was.
C21_IncrementOncePerPersist ==
  [][/\ domain_quotas' # domain_quotas =>
          \E p \in Procs :
             /\ ShareIncrement(p)
             /\ proc[p].domain # <<>>
             /\ proc[p].safe_recipe # NoDoc
             /\ proc[p].safe_recipe.adapted_from_domain = proc[p].domain
             /\ \A d \in Domains \ {proc[p].domain} :
                   domain_quotas'[d] = domain_quotas[d]
     /\ \A p \in Procs :
           ShareStore(p) /\ proc[p].domain # <<>> =>
              /\ proc'[p].pc = "cs_incr"
              /\ proc'[p].safe_recipe = safe_recipes'[proc[p].recipe_ids[proc[p].idx]]
     /\ \A d \in Domains \ {<<>>} :
           /\ Count90d(domain_quotas', d)
                + Cardinality(PendingIncrements(proc', d)) = uuid_next' - 1
           /\ CountDaily(domain_quotas', d)
                + Cardinality(PendingIncrements(proc', d)) = uuid_next' - 1
    ]_vars

\* One request stored the safe recipe of r2 and counted its domain once; the
\* other reused it and the counts stayed at one.
C21_Witness ==
  /\ uuid_next = 2
  /\ \A p \in Procs : proc[p].op = "share" /\ proc[p].safe_recipes = <<1>>
  /\ \A d \in Domains \ {<<>>} :
        Count90d(domain_quotas, d) = 1 /\ CountDaily(domain_quotas, d) = 1

\* C22: when the quota check of a request runs on a quota document whose
\* daily_reset is a day or more old, the document ends with daily_imports = 0
\* and daily_reset = now.
C22_DailyRollover ==
  [][\A p \in Procs :
       LET doc == FindQuota(domain_quotas, proc[p].domain)
       IN ( /\ ShareQuota(p)
            /\ doc # NoDoc
            /\ "daily_reset" \in DOMAIN doc
            /\ now - doc.daily_reset >= DAY_MINUTES )
          => /\ domain_quotas'[proc[p].domain].daily_imports = 0
             /\ domain_quotas'[proc[p].domain].daily_reset = now
    ]_vars

C24_Verdict ==
  "rw" \in DOMAIN gram =>
    LET rw == gram.rw
        passed8 == check_8gram_compliance(rw.o8).passed
    IN /\ gram.relaxed.passed_compliance
            = (passed8 /\ rw.overall <= 150
                 /\ (gram.relaxed.semantic_avg < 800 \/ ~FALSE))
       /\ gram.strict.passed_compliance
            = (passed8 /\ rw.overall <= 150
                 /\ (gram.strict.semantic_avg < 800 \/ ~TRUE))
       /\ \A other \in ComplianceInputs :
             other.o8 = rw.o8 /\ other.overall = rw.overall =>
                validate_compliance(other, FALSE).passed_compliance
                  = gram.relaxed.passed_compliance
       /\ gram.strict.passed_compliance => gram.relaxed.passed_compliance

\* An overall overlap between 0.10 and 0.15 with a semantic measure of 0.80
\* or more: computed and reported without check_semantic, and passed; failed
\* with check_semantic.
C24_Witness ==
  /\ "rw" \in DOMAIN gram
  /\ gram.rw.overall > 100 /\ gram.rw.overall < 150
  /\ gram.relaxed.semantic_avg >= 800
  /\ gram.relaxed.passed_compliance
  /\ ~gram.strict.passed_compliance

\* The candidate has the words of the source, each as often, in another
\* order.
IsReordering(source_words, rewritten_words) ==
  /\ Len(rewritten_words) = Len(source_words)
  /\ rewritten_words # source_words
  /\ \A i \in 1..Len(source_words) :
        Cardinality({j \in 1..Len(source_words) : source_words[j] = source_words[i]})
          = Cardinality({j \in 1..Len(rewritten_words) :
                            rewritten_words[j] = source_words[i]})

\* C25: for a source of at least 8 words, a candidate that has the words of
\* the source in another order (none added, none removed) does not pass the
\* 8-gram gate.
C25_ReorderedFails ==
  ( /\ "gate" \in DOMAIN gram
    /\ Len(Words(gram.source)) >= 8
    /\ IsReordering(Words(gram.source), Words(gram.rewritten)) )
  => gram.gate.passed = FALSE

\* C26: what happens to a recipe of a batch does not depend on what happened
\* to the recipes before it.  With one request and nothing stored before it,
\* the second recipe of the batch comes to the quota check of its domain
\* after the first was skipped or after it was accepted; after a skipped
\* first recipe the check allows and the rewrite follows, so the same
\* follows after an accepted one.
C26_BatchIsolation ==
  [][\A p \in Procs :
       ( /\ nshares = 1
         /\ proc[p].idx = 2
         /\ ShareQuota(p) )
       => /\ proc'[p].pc = "cs_rewrite"
          /\ proc'[p].compliance_issues = proc[p].compliance_issues
    ]_vars

\* C27: a used token stays as it is: used is not set back, and used_by and
\* used_at are not changed, by any step of any request.
C27_UsedImmutable ==
  [][\A tok \in DOMAIN import_tokens :
       import_tokens[tok].used
       => /\ import_tokens'[tok].used
          /\ import_tokens'[tok].used_by = import_tokens[tok].used_by
          /\ import_tokens'[tok].used_at = import_tokens[tok].used_at
    ]_vars

\* C28: every id listed in a token that is unused and not expired is the id
\* of a stored safe recipe, also after share requests for the same recipe of
\* the same user have run against each other.
C28_TokenIdsResolve ==
  \A tok \in DOMAIN import_tokens :
    ( ~import_tokens[tok].used /\ ~(now > import_tokens[tok].expires_at) )
    => \A i \in 1..Len(import_tokens[tok].recipe_ids) :
          FindSafeById(safe_recipes, import_tokens[tok].recipe_ids[i]) # NoDoc

\* C29: an import that is refused - token not found, used or expired, scope
\* not private-import-only, or the sender's own - is answered at once and
\* writes nothing: tokens, safe recipes, quota records and every library are
\* as before, and the request has copied no recipe.
C29_RefusedChangesNothing ==
  [][\A p \in Procs, u \in Users, tok \in TokenInputs :
       ( StartImport(p, u, tok)
         /\ import_checks(import_tokens, tok, u, now) # NoDoc )
       => /\ proc'[p].pc = "done"
          /\ proc'[p].result = import_checks(import_tokens, tok, u, now)
          /\ proc'[p].result.status \in {404, 410, 400}
          /\ proc'[p].imported = <<>>
          /\ import_tokens' = import_tokens
          /\ library' = library
          /\ UNCHANGED <<safe_recipes, uuid_next, domain_quotas>>
    ]_vars

\* The sender's own import and an import after the expiry were both refused;
\* the token is still unused and every library is empty.
C29_Witness ==
  \E p, q \in Procs :
    /\ proc[p].pc = "done" /\ proc[p].op = "import" /\ proc[p].result = SelfImport
    /\ proc[q].pc = "done" /\ proc[q].op = "import" /\ proc[q].result = GoneExpired
    /\ proc[p].token = proc[q].token
    /\ proc[p].token \in DOMAIN import_tokens
    /\ ~import_tokens[proc[p].token].used
    /\ "used_by" \notin DOMAIN import_tokens[proc[p].token]
    /\ \A u \in Users : library[u] = <<>>

\* C30: the limits hold whatever requests run against each other: for a
\* quota document whose daily_reset is less than a day old, the safe recipes
\* stored for the domain since then (counted, or stored and about to be
\* counted) are at most 10, and those of the 90 days at most 100.
C30_CapsHold ==
  \A d \in Domains :
    LET doc == FindQuota(domain_quotas, d)
        pending == Cardinality(PendingIncrements(proc, d))
    IN ( doc # NoDoc /\ "daily_reset" \in DOMAIN doc
         /\ now - doc.daily_reset < DAY_MINUTES )
       => /\ doc.daily_imports + pending <= MAX_DAILY_PER_DOMAIN
          /\ doc.import_count_90d + pending <= MAX_90DAY_PER_DOMAIN

====
